---- MODULE Spec2Model ----
(***************************************************************************)
(* Model of the listener registry of mo-modal (utils.js: EventHandler) and *)
(* of the DOM event machinery it drives (addEventListener with an abort    *)
(* signal, AbortController.abort, dispatchEvent); of the Modal element     *)
(* (modal.js) with its <dialog>, its subscriptions and the events it       *)
(* emits; and of the loading of the modal style sheet.                     *)
(*                                                                         *)
(* Specifications: Spec and SpecNested (registry), SpecModal (modals of a  *)
(* page), SpecStyle and SpecStyleFair (constructors and the style sheet).  *)
(*                                                                         *)
(* Strings the code inspects (the subscription keys) are sequences of      *)
(* one-character strings, so that eventType.split('.')[0] is computed.     *)
(***************************************************************************)
EXTENDS Integers, Sequences, FiniteSets, TLC

\* ------------------------------------------------------------------ bounds

\* Size of the pool of AbortController identities that are alive at once.
MaxCtrl == 2

\* Longest variadic target list passed to detach / detachAll.
MaxTargets == 2

\* Most runs of connectedCallback on one modal.
MaxConnects == 2

\* Most `close` events queued for one <dialog> and not yet fired.
MaxPending == 1

\* Number of Modal instances a page constructs.
NumInstances == 4

\* ------------------------------------------------------------------ inputs

\* Objects for which `x instanceof EventTarget` is true.
Targets == {"btn", "bus"}

\* The values for which it is false (undefined as for an unset field of
\* Modal, null, a plain object): the code tells them apart in no way, one
\* value stands for them.
NonTargets == {"undefined"}

AnyTarget == Targets \cup NonTargets

\* The modals of a page, with the uuid crypto.randomUUID() gave each of them
\* (modal.js line 74): the uuids of two modals differ.
Modals == {"A", "B"}

Uuid(m) == IF m = "A" THEN "uuid-A" ELSE "uuid-B"

\* The elements of the shadow tree of a modal that connectedCallback looks up
\* (this._cancelButton, this._confirmButton, this._dialog) and the event bus
\* all modals share (Modal._eventBus).
CancelButton(m) == IF m = "A" THEN "A.cancelButton" ELSE "B.cancelButton"

ConfirmButton(m) == IF m = "A" THEN "A.confirmButton" ELSE "B.confirmButton"

Dialog(m) == IF m = "A" THEN "A.dialog" ELSE "B.dialog"

EventBus == "bus"

ModalTargets ==
    {EventBus} \cup UNION { {CancelButton(m), ConfirmButton(m), Dialog(m)} : m \in Modals }

IsEventTarget(x) == x \in Targets \cup ModalTargets

Callbacks == {"f", "g"}

\* "click.a", "click.b" and "open" written with one-letter type tokens.
StringKeys == { <<"c", ".", "a">>, <<"c", ".", "b">>, <<"o">> }

\* A key argument that is not a string (attach(undefined, t, cb)).
UndefinedKey == <<"undefined">>

KeyArgs == StringKeys \cup {UndefinedKey}

IsString(k) == k # UndefinedKey

EventTypes == { <<"c">>, <<"o">> }

CtrlIds == 1..MaxCtrl

\* The pool for a page of modals: the controller of the i-th subscription of
\* a modal (1..6) takes one of two identities, the one the controller it
\* replaces does not have.
ModalCtrlIds(m, i) ==
    LET base == IF m = "A" THEN 0 ELSE 12
    IN  {base + 2 * i - 1, base + 2 * i}

Instances == 1..NumInstances

RECURSIVE SeqsUpTo(_, _)
SeqsUpTo(S, n) ==
    IF n = 0 THEN { <<>> }
    ELSE LET shorter == SeqsUpTo(S, n - 1)
         IN  shorter \cup { Append(s, x) : s \in shorter, x \in S }

TargetLists == SeqsUpTo(AnyTarget, MaxTargets)

\* ------------------------------------------------------------------ state

VARIABLES
    abortControllers,  \* EventHandler._abortControllers: target -> (key -> controller)
    attached,          \* the callback passed to the attach that recorded each key
    listeners,         \* the event listener list of every target
    dispatch,          \* the dispatchEvent call in progress, if any
    invoked,           \* the listeners the current/last dispatch has invoked
    ret                \* the EventHandler call that has just returned, if any

vars == <<abortControllers, attached, listeners, dispatch, invoked, ret>>

VARIABLES
    modals,            \* every Modal element: attributes, fields, its <dialog>
    pendingClose,      \* the queued tasks that fire `close` at each <dialog>
    lastCall,          \* the last operation performed on a modal
    log                \* what that operation emitted and did to the dialogs

modalVars == <<modals, pendingClose, lastCall, log>>

VARIABLES
    modalStyleSheet,   \* Modal._modalStyleSheet: null (0) or a promise
    constructed,       \* the Modal instances constructed so far, in order
    promises,          \* the promise of the loadStyleSheet call of each instance
    reactions,         \* the then-callbacks that have still to run
    adoptedStyleSheets,\* shadowRoot.adoptedStyleSheets of every instance
    headStyles         \* the <style data-component="mo-modal"> in document.head

styleVars == <<modalStyleSheet, constructed, promises, reactions,
               adoptedStyleSheets, headStyles>>

\* ------------------------------------------------------------------ maps

EmptyMap == [x \in {} |-> 0]

MapSet(m, k, v) == [x \in (DOMAIN m) \cup {k} |-> IF x = k THEN v ELSE m[x]]

MapDelete(m, k) == [x \in (DOMAIN m) \ {k} |-> m[x]]

Range(s) == { s[i] : i \in DOMAIN s }

\* ------------------------------------------------------------------ strings

\* eventType.split('.')[0]: the text before the first '.', all of it if none.
RECURSIVE BaseType(_)
BaseType(s) ==
    IF s = <<>> \/ Head(s) = "."
    THEN <<>>
    ELSE <<Head(s)>> \o BaseType(Tail(s))

\* ------------------------------------------------------------------ DOM

\* The part of the state the operations of EventHandler read and write:
\*   reg   EventHandler._abortControllers
\*   att   the callback recorded with each key
\*   lst   the event listener list of every target
\*   queue the listeners a dispatch in progress has still to visit
\*   ids   the identities a new AbortController can take
Heap == [reg |-> abortControllers, att |-> attached, lst |-> listeners,
         queue |-> dispatch.queue, ids |-> CtrlIds]

\* controller.abort(): the abort steps addEventListener registered on the
\* signal remove the listener from its target's list and set its `removed`
\* flag, which a dispatch that already cloned the list checks before it
\* invokes the listener.  A controller whose signal is bound to no listener
\* has no abort steps.
Abort(h, controller) ==
    [h EXCEPT
        !.lst = [t \in DOMAIN h.lst |->
                    SelectSeq(h.lst[t], LAMBDA l : l.signal # controller)],
        !.queue = [i \in DOMAIN h.queue |->
                    IF h.queue[i].signal = controller
                    THEN [h.queue[i] EXCEPT !.removed = TRUE]
                    ELSE h.queue[i]]]

\* eventTarget.addEventListener(type, callback, { signal }): nothing is
\* appended when the list already holds a listener of the same type and
\* callback (capture is always false here); the signal of the call is then
\* bound to no listener.
AddEventListener(lst, eventTarget, type, callback, signal) ==
    IF \E i \in DOMAIN lst[eventTarget] :
          /\ lst[eventTarget][i].type = type
          /\ lst[eventTarget][i].callback = callback
    THEN lst
    ELSE [lst EXCEPT ![eventTarget] =
            Append(@, [type |-> type, callback |-> callback, signal |-> signal])]

\* The controllers some object still refers to.
LiveControllers(h) ==
    UNION { { h.reg[t][k] : k \in DOMAIN h.reg[t] } : t \in DOMAIN h.reg }
    \cup { h.queue[i].signal : i \in DOMAIN h.queue }

FreeIds(h) == h.ids \ LiveControllers(h)

\* new AbortController(): an identity no controller alive at the start of the
\* call has.
NewController(h) == CHOOSE c \in FreeIds(h) : \A d \in FreeIds(h) : c <= d

\* ------------------------------------------------------------------ detach

\* `controller.size === 0` (line 73) reads `size` of the AbortController, not
\* of the Map `controllers`: the property does not exist, undefined === 0 is
\* false for every controller.
ControllerSizeIsZero(controller) == FALSE

\* detach without controller.abort(): the key is forgotten, the listener
\* stays.
DetachOneWithoutAbort(h, eventType, eventTarget) ==
    IF ~IsEventTarget(eventTarget) THEN h
    ELSE IF eventTarget \notin DOMAIN h.reg THEN h
    ELSE IF eventType \notin DOMAIN h.reg[eventTarget] THEN h
    ELSE [h EXCEPT !.reg = [h.reg EXCEPT ![eventTarget] = MapDelete(@, eventType)],
                   !.att = [h.att EXCEPT ![eventTarget] = MapDelete(@, eventType)]]

\* detach that matches keys by their event type: every key of the target
\* with the base type of eventType is cancelled.
RECURSIVE DetachKeys(_, _, _)
DetachKeys(h, keys, eventTarget) ==
    IF keys = {} THEN h
    ELSE LET k == CHOOSE x \in keys : TRUE
             a == Abort(h, h.reg[eventTarget][k])
         IN  DetachKeys([a EXCEPT
                            !.reg = [h.reg EXCEPT ![eventTarget] = MapDelete(@, k)],
                            !.att = [h.att EXCEPT ![eventTarget] = MapDelete(@, k)]],
                        keys \ {k}, eventTarget)

DetachOneByType(h, eventType, eventTarget) ==
    IF ~IsEventTarget(eventTarget) THEN h
    ELSE IF eventTarget \notin DOMAIN h.reg THEN h
    ELSE IF eventType \notin DOMAIN h.reg[eventTarget] THEN h
    ELSE DetachKeys(h, { k \in DOMAIN h.reg[eventTarget] :
                           BaseType(k) = BaseType(eventType) }, eventTarget)

\* detach that takes a key it does not find for "every key": the entry of
\* the target is dropped.
DetachOneDropsEntryOnMiss(h, eventType, eventTarget) ==
    IF ~IsEventTarget(eventTarget) THEN h
    ELSE IF eventTarget \notin DOMAIN h.reg THEN h
    ELSE IF eventType \notin DOMAIN h.reg[eventTarget]
         THEN [h EXCEPT !.reg = MapDelete(h.reg, eventTarget),
                        !.att = [h.att EXCEPT ![eventTarget] = EmptyMap]]
    ELSE LET controller == h.reg[eventTarget][eventType]
             a == Abort(h, controller)
         IN  [a EXCEPT !.reg = [h.reg EXCEPT ![eventTarget] = MapDelete(@, eventType)],
                       !.att = [h.att EXCEPT ![eventTarget] = MapDelete(@, eventType)]]

\* One iteration of the loop of detach (lines 51-77).
DetachOne(h, eventType, eventTarget) ==
    IF ~IsEventTarget(eventTarget) THEN h
    ELSE IF eventTarget \notin DOMAIN h.reg THEN h
    ELSE IF eventType \notin DOMAIN h.reg[eventTarget] THEN h
    ELSE LET controller == h.reg[eventTarget][eventType]
             a == Abort(h, controller)
             controllers == MapDelete(h.reg[eventTarget], eventType)
             att == [h.att EXCEPT ![eventTarget] = MapDelete(@, eventType)]
         IN  IF ControllerSizeIsZero(controller)
             THEN [a EXCEPT !.reg = MapDelete(h.reg, eventTarget), !.att = att]
             ELSE [a EXCEPT !.reg = [h.reg EXCEPT ![eventTarget] = controllers],
                            !.att = att]

\* detach(eventType, ...eventTargets): the loop over the targets.
RECURSIVE DetachLoop(_, _, _)
DetachLoop(h, eventType, eventTargets) ==
    IF eventTargets = <<>> THEN h
    ELSE DetachLoop(DetachOne(h, eventType, Head(eventTargets)),
                    eventType, Tail(eventTargets))

\* ------------------------------------------------------------------ detachAll

\* for (const controller of controllers.values()) controller.abort();
RECURSIVE AbortAll(_, _)
AbortAll(h, controllers) ==
    IF controllers = {} THEN h
    ELSE LET c == CHOOSE x \in controllers : TRUE
         IN  AbortAll(Abort(h, c), controllers \ {c})

\* detachAll without this._abortControllers.delete(eventTarget).
DetachAllOneKeepsEntry(h, eventTarget) ==
    IF ~IsEventTarget(eventTarget) THEN h
    ELSE IF eventTarget \notin DOMAIN h.reg THEN h
    ELSE LET controllers == h.reg[eventTarget]
             a == AbortAll(h, { controllers[k] : k \in DOMAIN controllers })
         IN  [a EXCEPT !.reg = [h.reg EXCEPT ![eventTarget] = EmptyMap],
                       !.att = [h.att EXCEPT ![eventTarget] = EmptyMap]]

\* One iteration of the loop of detachAll (lines 88-108).
DetachAllOne(h, eventTarget) ==
    IF ~IsEventTarget(eventTarget) THEN h
    ELSE IF eventTarget \notin DOMAIN h.reg THEN h
    ELSE LET controllers == h.reg[eventTarget]
             a == AbortAll(h, { controllers[k] : k \in DOMAIN controllers })
         IN  [a EXCEPT !.reg = MapDelete(h.reg, eventTarget),
                       !.att = [h.att EXCEPT ![eventTarget] = EmptyMap]]

\* detachAll whose loop ends (`break`) at the first target it skips.
RECURSIVE DetachAllLoopBreaks(_, _)
DetachAllLoopBreaks(h, eventTargets) ==
    IF eventTargets = <<>> THEN h
    ELSE IF \/ ~IsEventTarget(Head(eventTargets))
            \/ Head(eventTargets) \notin DOMAIN h.reg
         THEN h
    ELSE DetachAllLoopBreaks(DetachAllOne(h, Head(eventTargets)), Tail(eventTargets))

\* detachAll(...eventTargets): the loop over the targets.
RECURSIVE DetachAllLoop(_, _)
DetachAllLoop(h, eventTargets) ==
    IF eventTargets = <<>> THEN h
    ELSE DetachAllLoop(DetachAllOne(h, Head(eventTargets)), Tail(eventTargets))

\* ------------------------------------------------------------------ attach

\* attach without the detach of line 30.
AttachToWithoutDetach(h, eventType, eventTarget, callback) ==
    LET controller == NewController(h)
        existing == eventTarget \in DOMAIN h.reg
        controllers == MapSet(IF existing THEN h.reg[eventTarget] ELSE EmptyMap,
                              eventType, controller)
        att == [h.att EXCEPT ![eventTarget] = MapSet(@, eventType, callback)]
    IN  IF ~IsString(eventType)
        THEN [heap |-> IF existing
                       THEN [h EXCEPT !.reg = [h.reg EXCEPT ![eventTarget] = controllers],
                                      !.att = att]
                       ELSE h,
              thrown |-> TRUE]
        ELSE [heap |-> [h EXCEPT
                          !.lst = AddEventListener(h.lst, eventTarget,
                                     BaseType(eventType), callback, controller),
                          !.reg = MapSet(h.reg, eventTarget, controllers),
                          !.att = att],
              thrown |-> FALSE]

\* attach(eventType, eventTarget, callback) for an EventTarget, from line 30
\* on.  `thrown` tells whether eventType.split raised a TypeError (eventType
\* is not a string): that happens after controllers.set (line 35), so a Map
\* that is already in the registry keeps the new key, while a Map created on
\* line 34 is dropped with the exception.
AttachTo(h, eventType, eventTarget, callback) ==
    LET d == DetachLoop(h, eventType, <<eventTarget>>)
        controller == NewController(h)
        existing == eventTarget \in DOMAIN d.reg
        controllers == MapSet(IF existing THEN d.reg[eventTarget] ELSE EmptyMap,
                              eventType, controller)
        att == [d.att EXCEPT ![eventTarget] = MapSet(@, eventType, callback)]
    IN  IF ~IsString(eventType)
        THEN [heap |-> IF existing
                       THEN [d EXCEPT !.reg = [d.reg EXCEPT ![eventTarget] = controllers],
                                      !.att = att]
                       ELSE d,
              thrown |-> TRUE]
        ELSE [heap |-> [d EXCEPT
                          !.lst = AddEventListener(d.lst, eventTarget,
                                     BaseType(eventType), callback, controller),
                          !.reg = MapSet(d.reg, eventTarget, controllers),
                          !.att = att],
              thrown |-> FALSE]

\* ------------------------------------------------------------------ calls

\* What is noted of a call: its arguments, whether it raised, and the
\* callbacks of the recorded subscriptions it cancelled.
NoCall == [op |-> "none", key |-> <<>>, targets |-> <<>>, callback |-> "none",
           raised |-> FALSE, cancelled |-> {}]

NoDispatch == [active |-> FALSE, target |-> "none", type |-> <<>>,
               queue |-> <<>>, inCallback |-> FALSE, clean |-> TRUE]

\* The event targets among the arguments of a call.
ValidTargets(eventTargets) == { t \in Range(eventTargets) : IsEventTarget(t) }

\* The keys recorded for a target in a registry.
KeysOf(reg, t) == IF t \in DOMAIN reg THEN DOMAIN reg[t] ELSE {}

\* Script runs either from the top level (no dispatch in progress) or inside
\* a listener that a dispatch is invoking; the previous call has returned
\* and its outcome has been taken note of.
CanCall ==
    /\ ret.op = "none"
    /\ dispatch.active => dispatch.inCallback

\* The state after a call that left the heap as h.  `ret` records the calls
\* made from the top level; a call made from inside a listener marks the
\* dispatch in progress as no longer undisturbed.
Store(h, call) ==
    /\ abortControllers' = h.reg
    /\ attached' = h.att
    /\ listeners' = h.lst
    /\ dispatch' = IF dispatch.active
                   THEN [dispatch EXCEPT !.queue = h.queue, !.clean = FALSE]
                   ELSE dispatch
    /\ ret' = IF dispatch.active THEN NoCall ELSE call
    /\ UNCHANGED <<invoked, modalVars, styleVars>>

\* attach without the instanceof check of line 25: for a target that is no
\* event target, eventTarget.addEventListener raises a TypeError.
AttachUnchecked(eventType, eventTarget, callback) ==
    /\ CanCall
    /\ LET call == [NoCall EXCEPT !.op = "attach", !.key = eventType,
                                  !.targets = <<eventTarget>>,
                                  !.callback = callback]
       IN  IF ~IsEventTarget(eventTarget)
           THEN Store(Heap, [call EXCEPT !.raised = TRUE])
           ELSE /\ FreeIds(Heap) # {}
                /\ LET r == AttachTo(Heap, eventType, eventTarget, callback)
                       had == eventType \in KeysOf(abortControllers, eventTarget)
                   IN  Store(r.heap,
                             [call EXCEPT !.raised = r.thrown,
                                          !.cancelled = IF had
                                                        THEN {attached[eventTarget][eventType]}
                                                        ELSE {}])

\* EventHandler.attach(eventType, eventTarget, callback)
Attach(eventType, eventTarget, callback) ==
    /\ CanCall
    /\ LET call == [NoCall EXCEPT !.op = "attach", !.key = eventType,
                                  !.targets = <<eventTarget>>,
                                  !.callback = callback]
       IN  IF ~IsEventTarget(eventTarget)
           THEN Store(Heap, call)
           ELSE /\ FreeIds(Heap) # {}
                /\ LET r == AttachTo(Heap, eventType, eventTarget, callback)
                       had == eventType \in KeysOf(abortControllers, eventTarget)
                   IN  Store(r.heap,
                             [call EXCEPT !.raised = r.thrown,
                                          !.cancelled = IF had
                                                        THEN {attached[eventTarget][eventType]}
                                                        ELSE {}])

\* EventHandler.detach(eventType, ...eventTargets)
Detach(eventType, eventTargets) ==
    /\ CanCall
    /\ Store(DetachLoop(Heap, eventType, eventTargets),
             [NoCall EXCEPT !.op = "detach", !.key = eventType,
                            !.targets = eventTargets,
                            !.cancelled =
                                { attached[t][eventType] :
                                    t \in { x \in ValidTargets(eventTargets) :
                                              eventType \in KeysOf(abortControllers, x) } }])

\* EventHandler.detachAll(...eventTargets)
DetachAll(eventTargets) ==
    /\ CanCall
    /\ Store(DetachAllLoop(Heap, eventTargets),
             [NoCall EXCEPT !.op = "detachAll", !.targets = eventTargets,
                            !.cancelled =
                                UNION { { attached[t][k] : k \in KeysOf(abortControllers, t) } :
                                        t \in ValidTargets(eventTargets) }])

\* The caller goes on after the call (or after catching what it raised).
Continue ==
    /\ ret.op # "none"
    /\ ret' = NoCall
    /\ UNCHANGED <<abortControllers, attached, listeners, dispatch, invoked>>
    /\ UNCHANGED <<modalVars, styleVars>>

\* ------------------------------------------------------------------ dispatch

\* The listeners of a list that a dispatch of `type` visits, in order.
ListenersOfType(list, type) == SelectSeq(list, LAMBDA l : l.type = type)

\* The callbacks one undisturbed dispatch of `type` on target t invokes.
Delivered(lst, t, type) ==
    [i \in DOMAIN ListenersOfType(lst[t], type) |->
        ListenersOfType(lst[t], type)[i].callback]

\* eventTarget.dispatchEvent(new Event(type)) from the top level: the
\* listener list is cloned and the listeners of the event's type are visited
\* in order.
DispatchBegin(eventTarget, type) ==
    /\ ~dispatch.active
    /\ ret.op = "none"
    /\ dispatch' = [active |-> TRUE, target |-> eventTarget, type |-> type,
                    queue |-> [i \in DOMAIN ListenersOfType(listeners[eventTarget], type) |->
                                 [callback |-> ListenersOfType(listeners[eventTarget], type)[i].callback,
                                  signal |-> ListenersOfType(listeners[eventTarget], type)[i].signal,
                                  removed |-> FALSE]],
                    inCallback |-> FALSE, clean |-> TRUE]
    /\ invoked' = <<>>
    /\ UNCHANGED <<abortControllers, attached, listeners, ret>>
    /\ UNCHANGED <<modalVars, styleVars>>

\* The dispatch visits the next listener of the clone: it is invoked unless
\* its `removed` flag has been set in the meantime.
DispatchStep ==
    /\ dispatch.active
    /\ dispatch.queue # <<>>
    /\ LET l == Head(dispatch.queue)
       IN  /\ invoked' = IF l.removed THEN invoked ELSE Append(invoked, l.callback)
           /\ dispatch' = [dispatch EXCEPT !.queue = Tail(@),
                                           !.inCallback = ~l.removed]
    /\ UNCHANGED <<abortControllers, attached, listeners, ret>>
    /\ UNCHANGED <<modalVars, styleVars>>

\* dispatchEvent returns.
DispatchEnd ==
    /\ dispatch.active
    /\ dispatch.queue = <<>>
    /\ dispatch' = NoDispatch
    /\ invoked' = <<>>
    /\ UNCHANGED <<abortControllers, attached, listeners, ret>>
    /\ UNCHANGED <<modalVars, styleVars>>

\* ------------------------------------------------------------------ spec

\* A Modal after its constructor (modal.js lines 39-76): not in a document,
\* no `open` attribute, its <dialog> closed, connectedCallback has not run
\* (this._dialog and the buttons are unset), no event emitted yet.
NewModal == [connected |-> FALSE, hasOpen |-> FALSE, dialogOpen |-> FALSE,
             isModal |-> FALSE, connects |-> 0, lastEvent |-> "none"]

NoModalCall == [op |-> "none", modal |-> "none"]

InitModals ==
    /\ modals = [m \in Modals |-> NewModal]
    /\ pendingClose = [m \in Modals |-> 0]
    /\ lastCall = NoModalCall
    /\ log = <<>>

\* A page on which no Modal has been constructed.
InitStyle ==
    /\ modalStyleSheet = 0
    /\ constructed = <<>>
    /\ promises = [i \in Instances |-> "none"]
    /\ reactions = {}
    /\ adoptedStyleSheets = [i \in Instances |-> <<>>]
    /\ headStyles = 0

Init ==
    /\ abortControllers = EmptyMap
    /\ attached = [t \in Targets |-> EmptyMap]
    /\ listeners = [t \in Targets |-> <<>>]
    /\ dispatch = NoDispatch
    /\ invoked = <<>>
    /\ ret = NoCall
    /\ InitModals
    /\ InitStyle

\* Calls made from the top level only: every dispatch runs undisturbed.
Next ==
    \/ /\ ~dispatch.active
       /\ \E k \in KeyArgs, t \in AnyTarget, cb \in Callbacks : Attach(k, t, cb)
    \/ /\ ~dispatch.active
       /\ \E k \in KeyArgs, ts \in TargetLists : Detach(k, ts)
    \/ /\ ~dispatch.active
       /\ \E ts \in TargetLists : DetachAll(ts)
    \/ Continue
    \/ \E t \in Targets, e \in EventTypes : DispatchBegin(t, e)
    \/ DispatchStep
    \/ DispatchEnd

Spec == Init /\ [][Next]_vars

\* Calls made from the top level and from inside the listeners a dispatch
\* invokes (one target per call).
NextNested ==
    \/ \E k \in KeyArgs, t \in AnyTarget, cb \in Callbacks : Attach(k, t, cb)
    \/ \E k \in KeyArgs, t \in AnyTarget : Detach(k, <<t>>)
    \/ \E t \in AnyTarget : DetachAll(<<t>>)
    \/ Continue
    \/ \E t \in Targets, e \in EventTypes : DispatchBegin(t, e)
    \/ DispatchStep
    \/ DispatchEnd

SpecNested == Init /\ [][NextNested]_vars

TypeOK ==
    /\ DOMAIN abortControllers \subseteq Targets
    /\ \A t \in DOMAIN abortControllers :
          /\ DOMAIN abortControllers[t] \subseteq KeyArgs
          /\ \A k \in DOMAIN abortControllers[t] : abortControllers[t][k] \in CtrlIds
    /\ \A t \in Targets : \A i \in DOMAIN listeners[t] :
          /\ listeners[t][i].type \in EventTypes
          /\ listeners[t][i].callback \in Callbacks
          /\ listeners[t][i].signal \in CtrlIds
    /\ dispatch.active \in BOOLEAN
    /\ ret.op \in {"none", "attach", "detach", "detachAll"}

\* ------------------------------------------------------------------ helpers

\* The call that has just returned was made as the step just taken.
Called(op) == ret.op = "none" /\ ret'.op = op

\* The number of listeners of target t (in lst) with this type and callback.
CountListeners(lst, t, type, callback) ==
    Cardinality({ i \in DOMAIN lst[t] :
                    lst[t][i].type = type /\ lst[t][i].callback = callback })

\* The signals bound to a listener of target t.
Signals(lst, t) == { lst[t][i].signal : i \in DOMAIN lst[t] }

\* ------------------------------------------------------------------ C1

\* C1 (state part): every listener of a target is the subscription of
\* exactly one recorded key of that target (its signal is that key's
\* controller, its type the key's base type, its callback the one attached
\* under the key), and no two listeners share a controller: at most one
\* active subscription per (target, key).
C1_AtMostOnePerKey ==
    \A t \in Targets :
        /\ \A i \in DOMAIN listeners[t] :
              \E k \in KeysOf(abortControllers, t) :
                  /\ abortControllers[t][k] = listeners[t][i].signal
                  /\ IsString(k)
                  /\ BaseType(k) = listeners[t][i].type
                  /\ attached[t][k] = listeners[t][i].callback
                  /\ \A k2 \in KeysOf(abortControllers, t) :
                        abortControllers[t][k2] = listeners[t][i].signal => k2 = k
        /\ \A i, j \in DOMAIN listeners[t] :
              listeners[t][i].signal = listeners[t][j].signal => i = j

\* C1 (step part): attach(K, T, cb2) on an event target with a string key
\* cancels the subscription recorded under (T, K) before (its controller is
\* bound to no listener afterwards), records K with a new controller, and
\* leaves exactly one listener of K's base type with callback cb2, so that
\* one dispatch of that type on T invokes cb2 exactly once; the replaced
\* callback cb1 is invoked by it only if another recorded key of T of the
\* same base type carries cb1.
C1_AttachReplaces ==
    (Called("attach") /\ IsEventTarget(ret'.targets[1]) /\ IsString(ret'.key)) =>
        LET T == ret'.targets[1]
            K == ret'.key
            E == BaseType(K)
            d == Delivered(listeners', T, E)
        IN  /\ ~ret'.raised
            /\ K \in KeysOf(abortControllers', T)
            /\ attached'[T][K] = ret'.callback
            /\ K \in KeysOf(abortControllers, T) =>
                  /\ abortControllers'[T][K] # abortControllers[T][K]
                  /\ \A t \in Targets : abortControllers[T][K] \notin Signals(listeners', t)
            /\ CountListeners(listeners', T, E, ret'.callback) = 1
            /\ Cardinality({ i \in DOMAIN d : d[i] = ret'.callback }) = 1
            /\ \A i \in DOMAIN d :
                  (d[i] \in ret'.cancelled /\ d[i] # ret'.callback) =>
                      \E k2 \in KeysOf(abortControllers', T) \ {K} :
                          /\ IsString(k2)
                          /\ BaseType(k2) = E
                          /\ attached'[T][k2] = d[i]

\* C1: at most one active subscription per (target, key); a second attach
\* under the same key replaces the first.
C1_OneSubscriptionPerKey == [][C1_AttachReplaces]_vars /\ []C1_AtMostOnePerKey

\* attach(K, T, cb2) has just replaced a subscription of (T, K) that carried
\* another callback cb1, and a dispatch of K's base type on T now invokes cb2
\* exactly once and nothing else.
C1_Witness ==
    /\ ret.op = "attach"
    /\ ret.cancelled # {}
    /\ ret.callback \notin ret.cancelled
    /\ IsString(ret.key)
    /\ Delivered(listeners, ret.targets[1], BaseType(ret.key)) = <<ret.callback>>

\* ------------------------------------------------------------------ C2

\* C2: a target has an entry in the registry if and only if at least one key
\* is recorded for it; no target maps to an empty entry.
C2_EntryIffSubscribed ==
    \A t \in Targets :
        t \in DOMAIN abortControllers <=> KeysOf(abortControllers, t) # {}

\* ------------------------------------------------------------------ C3

\* A dispatch in progress has just invoked the listener at the head of its
\* queue.
Invokes == dispatch.active /\ dispatch'.active /\ Len(invoked') = Len(invoked) + 1

C3_InvokesOnlyRecorded ==
    Invokes =>
        \E k \in KeysOf(abortControllers, dispatch.target) :
            /\ abortControllers[dispatch.target][k] = Head(dispatch.queue).signal
            /\ attached[dispatch.target][k] = Head(dispatch.queue).callback

\* C3: every listener a dispatch step invokes is, at that moment, the
\* subscription of a key still recorded for the target.  A subscription that
\* detach, detachAll or a replacing attach has cancelled (from the top level
\* or from inside a listener of the dispatch in progress) is therefore never
\* invoked again, whatever calls follow.
C3_CancelledNeverInvoked == [][C3_InvokesOnlyRecorded]_vars

\* A listener of the dispatch in progress has cancelled a subscription the
\* dispatch had still to visit, and the dispatch has gone past it without
\* invoking it: the call has returned, the queue is exhausted, and fewer
\* callbacks were invoked than the dispatch set out to visit.
C3_Witness ==
    /\ dispatch.active
    /\ ~dispatch.clean
    /\ dispatch.queue = <<>>
    /\ ~dispatch.inCallback
    /\ Len(invoked) = 1
    /\ KeysOf(abortControllers, dispatch.target) = {}

\* ------------------------------------------------------------------ C4

C4_DetachAllRemoves ==
    Called("detachAll") =>
        /\ ~ret'.raised
        /\ \A t \in ValidTargets(ret'.targets) :
              /\ t \notin DOMAIN abortControllers'
              /\ attached'[t] = EmptyMap
              /\ listeners'[t] = <<>>

C4_DetachAfterwards ==
    (/\ Called("detach")
     /\ \A t \in ValidTargets(ret'.targets) : t \notin DOMAIN abortControllers) =>
        /\ ~ret'.raised
        /\ abortControllers' = abortControllers
        /\ attached' = attached
        /\ listeners' = listeners

\* C4: detachAll(T) leaves T without registry entry and without listener;
\* detach(K, T) on targets without entry (as they are after detachAll)
\* changes nothing and does not raise.
C4_DetachAllThenDetach == [][C4_DetachAllRemoves /\ C4_DetachAfterwards]_vars

\* detachAll has just cancelled subscriptions of a target, which now has no
\* entry.
C4_Witness ==
    /\ ret.op = "detachAll"
    /\ ret.cancelled # {}
    /\ \E t \in ValidTargets(ret.targets) : t \notin DOMAIN abortControllers

\* ------------------------------------------------------------------ C5

\* The controllers detach(K1, ts) cancels.
Cancels(K1, ts) ==
    { abortControllers[t][K1] :
        t \in { x \in ValidTargets(ts) : K1 \in KeysOf(abortControllers, x) } }

C5_DetachFrame ==
    Called("detach") =>
        LET K1 == ret'.key
            ts == ValidTargets(ret'.targets)
            gone == Cancels(K1, ret'.targets)
        IN  \* every other key of every target stays recorded as it was
            /\ \A t \in Targets : \A k \in KeysOf(abortControllers, t) :
                  \/ t \in ts /\ k = K1
                  \/ /\ k \in KeysOf(abortControllers', t)
                     /\ abortControllers'[t][k] = abortControllers[t][k]
                     /\ attached'[t][k] = attached[t][k]
            \* exactly the listeners bound to the cancelled controllers go
            /\ \A t \in Targets :
                  listeners'[t] = SelectSeq(listeners[t], LAMBDA l : l.signal \notin gone)
            \* what a dispatch delivers changes by the cancelled callback only
            /\ \A t \in Targets, E \in EventTypes :
                  LET before == Delivered(listeners, t, E)
                      after == Delivered(listeners', t, E)
                  IN  /\ \A cb \in Callbacks :
                            (cb \in Range(before) /\ cb \notin Range(after)) =>
                                /\ t \in ts
                                /\ K1 \in KeysOf(abortControllers, t)
                                /\ IsString(K1) /\ BaseType(K1) = E
                                /\ attached[t][K1] = cb
                      /\ Range(after) \subseteq Range(before)
            \* the cancelled callback is delivered no more, unless another key
            \* of the same base type carries it too
            /\ \A t \in ts :
                  (K1 \in KeysOf(abortControllers, t) /\ IsString(K1)) =>
                      \/ attached[t][K1] \notin Range(Delivered(listeners', t, BaseType(K1)))
                      \/ \E k2 \in KeysOf(abortControllers', t) :
                            /\ IsString(k2) /\ BaseType(k2) = BaseType(K1)
                            /\ attached'[t][k2] = attached[t][K1]

\* C5: detach(K1, T) cancels only the subscription under (T, K1).
C5_DetachCancelsOnlyItsKey == [][C5_DetachFrame]_vars

\* detach(K1, T) has just cancelled f1; another key of T of the same base
\* type carries another callback f2, and a dispatch of that type on T now
\* invokes f2 and nothing else.
C5_Witness ==
    /\ ret.op = "detach"
    /\ Len(ret.targets) = 1
    /\ IsString(ret.key)
    /\ \E f1, f2 \in Callbacks :
          /\ f1 # f2
          /\ ret.cancelled = {f1}
          /\ \E k2 \in KeysOf(abortControllers, ret.targets[1]) :
                /\ k2 # ret.key
                /\ BaseType(k2) = BaseType(ret.key)
                /\ attached[ret.targets[1]][k2] = f2
          /\ Delivered(listeners, ret.targets[1], BaseType(ret.key)) = <<f2>>

\* ------------------------------------------------------------------ C6

C6_InvalidTargetStep ==
    (/\ ret.op = "none"
     /\ ret'.op \in {"attach", "detach", "detachAll"}
     /\ ret'.targets # <<>>
     /\ ValidTargets(ret'.targets) = {}) =>
        /\ ~ret'.raised
        /\ abortControllers' = abortControllers
        /\ attached' = attached
        /\ listeners' = listeners

\* C6: attach, detach and detachAll called with targets that are not event
\* targets do not raise and leave the registry and every subscription of
\* every target as they were.
C6_InvalidTargetIsNoOp == [][C6_InvalidTargetStep]_vars

\* attach has just returned from a call with a target that is no event
\* target and a key that is no string, while subscriptions of event targets
\* exist.
C6_Witness ==
    /\ ret.op = "attach"
    /\ ~IsEventTarget(ret.targets[1])
    /\ ~IsString(ret.key)
    /\ \E t \in Targets : listeners[t] # <<>>

\* ------------------------------------------------------------------ C7

C7_DetachMissingKeyStep ==
    (/\ Called("detach")
     /\ ValidTargets(ret'.targets) # {}
     /\ \A t \in ValidTargets(ret'.targets) :
           ret'.key \notin KeysOf(abortControllers, t)) =>
        /\ ~ret'.raised
        /\ abortControllers' = abortControllers
        /\ attached' = attached
        /\ listeners' = listeners

\* C7: detach(K, T) for event targets on which K is not recorded changes
\* nothing and does not raise.
C7_DetachMissingKeyIsNoOp == [][C7_DetachMissingKeyStep]_vars

\* detach(K, T) has just returned having cancelled nothing, for an event
\* target T whose entry holds other keys, with live listeners.
C7_Witness ==
    /\ ret.op = "detach"
    /\ ret.cancelled = {}
    /\ \E t \in ValidTargets(ret.targets) :
          /\ KeysOf(abortControllers, t) # {}
          /\ listeners[t] # <<>>

\* ------------------------------------------------------------------ C8

C8_CallStep ==
    (ret.op = "none" /\ ret'.op # "none") =>
        /\ ~ret'.raised
        /\ ValidTargets(ret'.targets) = {} =>
              /\ abortControllers' = abortControllers
              /\ listeners' = listeners

\* C8: no call of attach, detach or detachAll raises, whatever the key and
\* the target, and a call that cannot do its work leaves the registry as it
\* was.
C8_NoCallRaises == [][C8_CallStep]_vars

\* ------------------------------------------------------------------ C9

C9_EveryTargetDetached ==
    /\ Called("detach") =>
          \A i \in DOMAIN ret'.targets :
              LET t == ret'.targets[i]
              IN  IsEventTarget(t) =>
                    /\ ret'.key \notin KeysOf(abortControllers', t)
                    /\ ret'.key \in KeysOf(abortControllers, t) =>
                          abortControllers[t][ret'.key] \notin Signals(listeners', t)
    /\ Called("detachAll") =>
          \A i \in DOMAIN ret'.targets :
              LET t == ret'.targets[i]
              IN  IsEventTarget(t) =>
                    /\ KeysOf(abortControllers', t) = {}
                    /\ Signals(listeners', t) = {}

\* C9: detach and detachAll deal with every listed target on its own: an
\* invalid target, one without entry or (for detach) one without the key is
\* skipped, and every other listed target, before or after it, is detached.
C9_TargetsIndependent == [][C9_EveryTargetDetached]_vars

\* detachAll has just been called with a target that is no event target
\* listed before the only event target of the list, whose subscriptions it
\* cancelled.
C9_Witness ==
    /\ ret.op = "detachAll"
    /\ Len(ret.targets) >= 2
    /\ ~IsEventTarget(ret.targets[1])
    /\ IsEventTarget(ret.targets[Len(ret.targets)])
    /\ Cardinality(ValidTargets(ret.targets)) = 1
    /\ ret.cancelled # {}

\* ------------------------------------------------------------------ C10

\* The dispatch in progress has visited every listener and nothing was
\* called from inside them.
DispatchComplete == dispatch.active /\ dispatch.queue = <<>> /\ dispatch.clean

\* The callbacks attached under the recorded keys of t whose base type is E.
Expected(t, E) ==
    { attached[t][k] :
        k \in { x \in KeysOf(abortControllers, t) : IsString(x) /\ BaseType(x) = E } }

\* C10: the callbacks one dispatch of E on T invokes are exactly the
\* callbacks attached under the recorded keys of T with base type E.
C10_DeliveryMatchesRegistry ==
    DispatchComplete => Range(invoked) = Expected(dispatch.target, dispatch.type)

\* ------------------------------------------------------------------ Modal

\* The state the methods of Modal read and write while one operation runs:
\*   heap     the registry and the listener lists (no dispatch of the
\*            registry model is in progress: queue is empty)
\*   modals   the modals
\*   pending  the queued `close` tasks
\*   log      what the operation has emitted and done to the dialogs so far
\*   thrown   whether the call being evaluated has raised
World == [heap |-> Heap, modals |-> modals,
          pending |-> pendingClose, log |-> <<>>, thrown |-> FALSE]

\* The subscription keys of connectedCallback; the event types are whole
\* tokens, '.' is the separator eventType.split looks for.
OpenKey(m) == <<"open", ".", Uuid(m)>>

ClickCancelKey == <<"click", ".", "cancel">>

ClickConfirmKey == <<"click", ".", "confirm">>

CancelKey == <<"cancel">>

MousedownKey == <<"mousedown">>

CloseKey == <<"close">>

\* The function object the n-th connectedCallback of modal m creates for a
\* handler: every run creates new closures (and a new bound function).
Closure(m, handler, n) == <<m, handler, n>>

\* An event reaches the listeners of others (on the element, on the bus) or
\* a native operation changes a dialog: noted in the log.  The modal
\* remembers the last of its open/close events.
Emit(w, m, what, on) ==
    LET l == [w EXCEPT !.log = Append(@, [modal |-> m, what |-> what, on |-> on])]
    IN  IF on = "element" /\ what \in {"open", "close"}
        THEN [l EXCEPT !.modals[m].lastEvent = what]
        ELSE l

\* HTMLDialogElement close(): nothing for a dialog that is not open;
\* otherwise the dialog closes and a task that fires `close` is queued.
NativeClose(w, m) ==
    IF ~w.modals[m].dialogOpen THEN w
    ELSE [Emit(w, m, "close", "dialog") EXCEPT
              !.modals[m].dialogOpen = FALSE,
              !.modals[m].isModal = FALSE,
              !.pending[m] = @ + 1]

\* HTMLDialogElement show() / showModal(): nothing for a dialog open in the
\* same mode, InvalidStateError for one open in the other mode, and for
\* showModal() on a dialog that is not connected to a document.
NativeShow(w, m, asModal) ==
    IF w.modals[m].dialogOpen
    THEN IF w.modals[m].isModal = asModal THEN w ELSE [w EXCEPT !.thrown = TRUE]
    ELSE IF asModal /\ ~w.modals[m].connected THEN [w EXCEPT !.thrown = TRUE]
    ELSE [Emit(w, m, "show", "dialog") EXCEPT
              !.modals[m].dialogOpen = TRUE,
              !.modals[m].isModal = asModal]

\* _emitCloseEvent (lines 299-302)
EmitCloseEvent(w, m) == Emit(w, m, "close", "element")

\* close(): removeAttribute('open') and the attributeChangedCallback it
\* triggers (lines 252-277, else branch).  Removing an absent attribute
\* triggers nothing.  Before the first connectedCallback this._dialog is
\* undefined: the callback raises a TypeError, which is reported and not
\* passed on to the caller of close().
ModalClose(w, m) ==
    IF ~w.modals[m].hasOpen THEN w
    ELSE LET a == [w EXCEPT !.modals[m].hasOpen = FALSE]
         IN  IF a.modals[m].connects = 0 THEN a
             ELSE EmitCloseEvent(NativeClose(a, m), m)

\* What a listener does when invoked.  `ev` holds what the handlers read of
\* the attributes of the modal operated on and of the event:
\*   keyboard  isAcceptingEscapeKey
\*   hit       !hasStaticBackdrop && event.target.contains(this._dialog)
\*   uuid      event.detail.uuid
\* The click handlers' _emitCancelEvent / _emitConfirmEvent are part of
\* ButtonClick below, where the event they dispatch travels.
Invoke(w, callback, ev) ==
    LET m == callback[1]
        handler == callback[2]
    IN  CASE handler = "_enforceExclusiveness" ->
                IF w.modals[m].hasOpen /\ ev.uuid # Uuid(m) THEN ModalClose(w, m) ELSE w
          [] handler = "click.cancel" -> ModalClose(w, m)
          [] handler = "click.confirm" -> ModalClose(w, m)
          [] handler = "cancel" -> IF ev.keyboard THEN ModalClose(w, m) ELSE w
          [] handler = "mousedown" -> IF ev.hit THEN ModalClose(w, m) ELSE w
          [] handler = "close" -> IF w.modals[m].hasOpen THEN ModalClose(w, m) ELSE w

\* The listeners a dispatch invokes, in order.  No handler of Modal adds or
\* cancels a subscription, so every listener of the cloned list is invoked.
RECURSIVE InvokeAll(_, _, _)
InvokeAll(w, callbacks, ev) ==
    IF callbacks = <<>> THEN w
    ELSE InvokeAll(Invoke(w, Head(callbacks), ev), Tail(callbacks), ev)

\* eventTarget.dispatchEvent(event) for an event of `type`
DispatchEvent(w, eventTarget, type, ev) ==
    InvokeAll(w, Delivered(w.heap.lst, eventTarget, type), ev)

\* _emitOpenEvent (lines 290-294): the event is dispatched on the element,
\* then on the bus.
EmitOpenEvent(w, m, ev) ==
    DispatchEvent(Emit(Emit(w, m, "open", "element"), m, "open", "bus"),
                  EventBus, <<"open">>, [ev EXCEPT !.uuid = Uuid(m)])

\* open(): setAttribute('open', '') and the attributeChangedCallback it
\* triggers (lines 252-277, then branch); `backdrop` is hasBackdrop.  For an
\* attribute that is already there oldValue equals newValue.  What the
\* callback raises (this._dialog undefined, or an error of showModal) is
\* reported and not passed on: the attribute stays, no event is emitted.
\*
\* this._dialog.show / showModal after `depth` runs of
\* _ensureSyncWithDialogElement (lines 174-190): each run wraps the function
\* it finds.
RECURSIVE ModalOpen(_, _, _), DialogShow(_, _, _, _, _)
ModalOpen(w, m, ev) ==
    IF w.modals[m].hasOpen THEN w
    ELSE LET a == [w EXCEPT !.modals[m].hasOpen = TRUE]
         IN  IF a.modals[m].connects = 0 THEN a
             ELSE LET s == DialogShow(a, m, ev.backdrop, a.modals[m].connects, ev)
                  IN  IF s.thrown THEN [s EXCEPT !.thrown = FALSE]
                      ELSE EmitOpenEvent(s, m, ev)

DialogShow(w, m, asModal, depth, ev) ==
    IF depth = 0 THEN NativeShow(w, m, asModal)
    ELSE IF w.modals[m].dialogOpen = w.modals[m].hasOpen
         THEN ModalOpen(w, m, ev)
         ELSE DialogShow(w, m, asModal, depth - 1, ev)

\* toggle() (lines 241-243)
ModalToggle(w, m, ev) ==
    IF w.modals[m].hasOpen THEN ModalClose(w, m) ELSE ModalOpen(w, m, ev)

\* The heap of a world replaced by the outcome of a registry call.
WithHeap(w, h) == [w EXCEPT !.heap = h]

\* The heap in which the next new AbortController is the one of the i-th
\* subscription of modal m.
Pool(h, m, i) == [h EXCEPT !.ids = ModalCtrlIds(m, i)]

\* connectedCallback (lines 121-160) with _ensureSyncWithDialogElement
\* (lines 166-192): the six subscriptions, each with a new function, and one
\* more wrapper around the dialog's show and showModal.
ConnectedCallback(w, m) ==
    LET n == w.modals[m].connects + 1
        h1 == AttachTo(Pool(w.heap, m, 1), OpenKey(m), EventBus,
                       Closure(m, "_enforceExclusiveness", n)).heap
        h2 == AttachTo(Pool(h1, m, 2), ClickCancelKey, CancelButton(m),
                       Closure(m, "click.cancel", n)).heap
        h3 == AttachTo(Pool(h2, m, 3), ClickConfirmKey, ConfirmButton(m),
                       Closure(m, "click.confirm", n)).heap
        h4 == AttachTo(Pool(h3, m, 4), CancelKey, Dialog(m),
                       Closure(m, "cancel", n)).heap
        h5 == AttachTo(Pool(h4, m, 5), MousedownKey, Dialog(m),
                       Closure(m, "mousedown", n)).heap
        h6 == AttachTo(Pool(h5, m, 6), CloseKey, Dialog(m),
                       Closure(m, "close", n)).heap
    IN  [WithHeap(w, h6) EXCEPT !.modals[m].connects = n]

\* The value of a field connectedCallback sets.
Field(w, m, element) == IF w.modals[m].connects = 0 THEN "undefined" ELSE element

\* disconnectedCallback without the detach of line 202.
DisconnectedCallbackKeepsBus(w, m) ==
    WithHeap(w, DetachAllLoop(w.heap, << Field(w, m, ConfirmButton(m)),
                                         Field(w, m, CancelButton(m)),
                                         "undefined", "undefined",
                                         Field(w, m, Dialog(m)) >>))

\* disconnectedCallback (lines 199-203); this._backdrop and this._modal are
\* never set.
DisconnectedCallback(w, m) ==
    LET h1 == DetachAllLoop(w.heap, << Field(w, m, ConfirmButton(m)),
                                       Field(w, m, CancelButton(m)),
                                       "undefined", "undefined",
                                       Field(w, m, Dialog(m)) >>)
        h2 == DetachLoop(h1, OpenKey(m), <<EventBus>>)
    IN  WithHeap(w, h2)

\* A click on a button of modal m: the click listeners of the button run;
\* each closes the modal and dispatches `what` (cancel / confirm, bubbling
\* and composed) on the button, from where it passes the dialog, whose
\* listeners of that type run, and reaches the element.
RECURSIVE ButtonClick(_, _, _, _, _)
ButtonClick(w, m, callbacks, what, ev) ==
    IF callbacks = <<>> THEN w
    ELSE LET c == Invoke(w, Head(callbacks), ev)
             d == DispatchEvent(c, Dialog(m), <<what>>, ev)
         IN  ButtonClick(Emit(d, m, what, "element"), m, Tail(callbacks), what, ev)

\* ------------------------------------------------------------------ Modal: operations

\* What the handlers read besides the state: hasBackdrop, the two conditions
\* of the dialog's listeners, and the uuid an open event carries.
In(backdrop, keyboard, hit) ==
    [backdrop |-> backdrop, keyboard |-> keyboard, hit |-> hit, uuid |-> "none"]

NoIn == In(TRUE, TRUE, FALSE)

\* The state after an operation that left the world as w; the operation
\* starts when what the previous one did has been taken note of.
ModalStore(w, op, m) ==
    /\ lastCall.op = "none"
    /\ \A x \in Modals : w.pending[x] <= MaxPending
    /\ abortControllers' = w.heap.reg
    /\ attached' = w.heap.att
    /\ listeners' = w.heap.lst
    /\ modals' = w.modals
    /\ pendingClose' = w.pending
    /\ lastCall' = [op |-> op, modal |-> m]
    /\ log' = w.log
    /\ UNCHANGED <<dispatch, invoked, ret, styleVars>>

\* The element is inserted into the document: connectedCallback runs.
Connect(m) ==
    /\ ~modals[m].connected
    /\ modals[m].connects < MaxConnects
    /\ ModalStore(ConnectedCallback([World EXCEPT !.modals[m].connected = TRUE], m),
                  "connect", m)

\* connectedCallback runs once more on an element that is in the document
\* (script calls it).
ConnectAgain(m) ==
    /\ modals[m].connected
    /\ modals[m].connects < MaxConnects
    /\ ModalStore(ConnectedCallback(World, m), "connectedCallback", m)

\* The element is removed from the document: its dialog is no longer modal
\* (it keeps its open attribute), then disconnectedCallback runs.
Disconnect(m) ==
    /\ modals[m].connected
    /\ ModalStore(DisconnectedCallback([World EXCEPT !.modals[m].connected = FALSE,
                                                     !.modals[m].isModal = FALSE], m),
                  "disconnect", m)

Open(m, backdrop) ==
    ModalStore(ModalOpen(World, m, In(backdrop, TRUE, FALSE)), "open", m)

Close(m) == ModalStore(ModalClose(World, m), "close", m)

Toggle(m, backdrop) ==
    ModalStore(ModalToggle(World, m, In(backdrop, TRUE, FALSE)), "toggle", m)

\* Script calls show() or showModal() of the modal's <dialog>
\* (modal.shadowRoot.querySelector('dialog')); what the call raises goes to
\* the script.
ShowDialog(m, asModal, backdrop) ==
    ModalStore([DialogShow(World, m, asModal, modals[m].connects,
                           In(backdrop, TRUE, FALSE)) EXCEPT !.thrown = FALSE],
               IF asModal THEN "dialog.showModal" ELSE "dialog.show", m)

\* Script calls close() of the <dialog>, or the browser closes it.
CloseDialog(m) == ModalStore(NativeClose(World, m), "dialog.close", m)

\* A queued task fires `close` at the <dialog>.
FireClose(m) ==
    /\ pendingClose[m] > 0
    /\ ModalStore(DispatchEvent([World EXCEPT !.pending[m] = @ - 1],
                                Dialog(m), <<"close">>, NoIn),
                  "closeEvent", m)

ClickCancel(m, keyboard) ==
    ModalStore(ButtonClick(World, m, Delivered(listeners, CancelButton(m), <<"click">>),
                           "cancel", In(TRUE, keyboard, FALSE)),
               "click.cancel", m)

ClickConfirm(m) ==
    ModalStore(ButtonClick(World, m, Delivered(listeners, ConfirmButton(m), <<"click">>),
                           "confirm", NoIn),
               "click.confirm", m)

\* The Escape key for a modal dialog that is showing: `cancel` is fired at
\* the <dialog>, which closes unless a listener called preventDefault (the
\* listener of line 141 always does).
EscapeKey(m, keyboard) ==
    /\ modals[m].connected /\ modals[m].dialogOpen /\ modals[m].isModal
    /\ LET d == DispatchEvent(World, Dialog(m), <<"cancel">>, In(TRUE, keyboard, FALSE))
       IN  ModalStore(IF Delivered(listeners, Dialog(m), <<"cancel">>) = <<>>
                      THEN NativeClose(d, m) ELSE d,
                      "escape", m)

\* The mouse button goes down on the dialog or its backdrop.
Mousedown(m, hit) ==
    /\ modals[m].connected /\ modals[m].dialogOpen
    /\ ModalStore(DispatchEvent(World, Dialog(m), <<"mousedown">>, In(TRUE, TRUE, hit)),
                  "mousedown", m)

\* The page goes on after an operation.
ModalContinue ==
    /\ lastCall.op # "none"
    /\ lastCall' = NoModalCall
    /\ log' = <<>>
    /\ UNCHANGED <<vars, modals, pendingClose, styleVars>>

\* The page with its modals constructed and nothing subscribed.
InitModal ==
    /\ abortControllers = EmptyMap
    /\ attached = [t \in ModalTargets |-> EmptyMap]
    /\ listeners = [t \in ModalTargets |-> <<>>]
    /\ dispatch = NoDispatch
    /\ invoked = <<>>
    /\ ret = NoCall
    /\ InitModals
    /\ InitStyle

NextModal ==
    \/ \E m \in Modals : Connect(m)
    \/ \E m \in Modals : ConnectAgain(m)
    \/ \E m \in Modals : Disconnect(m)
    \/ \E m \in Modals, backdrop \in BOOLEAN : Open(m, backdrop)
    \/ \E m \in Modals : Close(m)
    \/ \E m \in Modals, backdrop \in BOOLEAN : Toggle(m, backdrop)
    \/ \E m \in Modals, asModal \in BOOLEAN, backdrop \in BOOLEAN :
          ShowDialog(m, asModal, backdrop)
    \/ \E m \in Modals : CloseDialog(m)
    \/ \E m \in Modals : FireClose(m)
    \/ \E m \in Modals, keyboard \in BOOLEAN : ClickCancel(m, keyboard)
    \/ \E m \in Modals : ClickConfirm(m)
    \/ \E m \in Modals, keyboard \in BOOLEAN : EscapeKey(m, keyboard)
    \/ \E m \in Modals, hit \in BOOLEAN : Mousedown(m, hit)
    \/ ModalContinue

allVars == <<vars, modalVars, styleVars>>

SpecModal == InitModal /\ [][NextModal]_allVars

ModalTypeOK ==
    /\ \A m \in Modals :
          /\ modals[m].connects \in 0..MaxConnects
          /\ pendingClose[m] \in 0..MaxPending
          /\ modals[m].lastEvent \in {"none", "open", "close"}
    /\ DOMAIN abortControllers \subseteq ModalTargets

\* ------------------------------------------------------------------ Modal: claims

\* Operation op has just been performed on modal m.
Did(op, m) == lastCall.op = "none" /\ lastCall' = [op |-> op, modal |-> m]

\* Number of log entries of one kind.
CountLog(l, m, what, on) ==
    Cardinality({ i \in DOMAIN l : l[i] = [modal |-> m, what |-> what, on |-> on] })

\* The connected modals that have the open attribute.
OpenConnected == { m \in Modals : modals[m].connected /\ modals[m].hasOpen }

\* C11, first half: between operations at most one modal that is connected
\* to the document has the open attribute.
C11_AtMostOneOpen == Cardinality(OpenConnected) <= 1

\* C11, second half: open() on a connected modal leaves it open and every
\* other connected modal without the open attribute.
C11_OpenClosesOthers ==
    \A m \in Modals :
        Did("open", m) /\ modals[m].connected =>
            /\ modals'[m].hasOpen
            /\ \A x \in Modals \ {m} : modals'[x].connected => ~modals'[x].hasOpen

\* C11: modal exclusiveness under any sequence of open(), close(), toggle(),
\* connectedCallback and disconnectedCallback: at most one connected modal
\* is open, and opening a modal closes every other connected modal that is
\* open and never the modal itself.
C11_Exclusiveness == []C11_AtMostOneOpen /\ [][C11_OpenClosesOthers]_allVars

\* C12: once connectedCallback has run on a modal, whenever no `close` event
\* of its dialog is pending the dialog is open exactly if the modal has the
\* open attribute.
C12_DialogInSync ==
    \A m \in Modals :
        modals[m].connects > 0 /\ pendingClose[m] = 0 =>
            modals[m].dialogOpen = modals[m].hasOpen

\* The listeners of a list whose function a connectedCallback of modal m
\* created.
ListenersOf(list, m) == SelectSeq(list, LAMBDA l : l.callback[1] = m)

\* The elements of modal m that carry subscriptions.
ElementsOf(m) == {CancelButton(m), ConfirmButton(m), Dialog(m)}

\* Modal m has no active subscription in a registry and listener lists: no
\* key on its buttons and dialog, not its key on the bus, and no listener of
\* its on any target.
NoSubscriptions(reg, lst, m) ==
    /\ \A t \in ElementsOf(m) : KeysOf(reg, t) = {}
    /\ OpenKey(m) \notin KeysOf(reg, EventBus)
    /\ \A t \in ModalTargets : ListenersOf(lst[t], m) = <<>>

\* C13, the step of disconnectedCallback: afterwards M has no subscription,
\* a dispatch of `open` on the bus invokes no handler of M, and the bus
\* subscription of every other modal is as it was.
C13_DisconnectStep ==
    \A m \in Modals :
        Did("disconnect", m) =>
            /\ NoSubscriptions(abortControllers', listeners', m)
            /\ \A i \in DOMAIN Delivered(listeners', EventBus, <<"open">>) :
                  Delivered(listeners', EventBus, <<"open">>)[i][1] # m
            /\ \A x \in Modals \ {m} :
                  /\ ListenersOf(listeners'[EventBus], x) = ListenersOf(listeners[EventBus], x)
                  /\ OpenKey(x) \in KeysOf(abortControllers', EventBus)
                        <=> OpenKey(x) \in KeysOf(abortControllers, EventBus)
                  /\ modals[x].connected =>
                        /\ OpenKey(x) \in KeysOf(abortControllers', EventBus)
                        /\ Len(ListenersOf(listeners'[EventBus], x)) = 1

\* C13, later: open() of another modal leaves a modal that is not connected
\* as it is (its exclusiveness handler does not run).
C13_OpenSkipsDisconnected ==
    \A m \in Modals : \A x \in Modals \ {m} :
        Did("open", x) /\ ~modals[m].connected => modals'[m] = modals[m]

\* A modal that is not connected has no active subscription.
C13_NoneWhileDisconnected ==
    \A m \in Modals :
        ~modals[m].connected => NoSubscriptions(abortControllers, listeners, m)

\* C13: after disconnectedCallback of modal M none of M's subscriptions is
\* active (buttons, dialog, open.<uuid of M> on the bus), so a later open of
\* another modal does not run M's exclusiveness handler; the bus
\* subscriptions of the other connected modals remain active.
C13_DisconnectCancelsOwnOnly ==
    /\ []C13_NoneWhileDisconnected
    /\ [][C13_DisconnectStep /\ C13_OpenSkipsDisconnected]_allVars

\* M has been disconnected while open, the other modal is connected and has
\* just been opened: M still has its open attribute.
C13_Witness ==
    /\ lastCall = [op |-> "open", modal |-> "B"]
    /\ ~modals["A"].connected /\ modals["A"].connects > 0 /\ modals["A"].hasOpen
    /\ modals["B"].connected /\ modals["B"].hasOpen
    /\ CountLog(log, "B", "open", "bus") = 1
    /\ Len(ListenersOf(listeners[EventBus], "B")) = 1

\* The subscriptions connectedCallback makes for modal m: target, key and
\* the handler subscribed.
Subscriptions(m) ==
    { <<EventBus, OpenKey(m), "_enforceExclusiveness">>,
      <<CancelButton(m), ClickCancelKey, "click.cancel">>,
      <<ConfirmButton(m), ClickConfirmKey, "click.confirm">>,
      <<Dialog(m), CancelKey, "cancel">>,
      <<Dialog(m), MousedownKey, "mousedown">>,
      <<Dialog(m), CloseKey, "close">> }

\* The listeners of modal m on target t for handler name h.
HandlerListeners(t, m, h) ==
    SelectSeq(listeners[t], LAMBDA l : l.callback[1] = m /\ l.callback[2] = h)

\* C14, subscriptions: a connected modal holds every key once: the key is
\* recorded, and the target has exactly one listener of the modal for it,
\* of the key's event type, created by the last connectedCallback and bound
\* to the recorded controller.
C14_OnePerKey ==
    \A m \in Modals :
        modals[m].connected =>
            /\ \A s \in Subscriptions(m) :
                  /\ s[2] \in KeysOf(abortControllers, s[1])
                  /\ HandlerListeners(s[1], m, s[3]) =
                        << [type |-> BaseType(s[2]),
                            callback |-> Closure(m, s[3], modals[m].connects),
                            signal |-> abortControllers[s[1]][s[2]]] >>
            /\ \A t \in ElementsOf(m) :
                  KeysOf(abortControllers, t) = { s[2] : s \in { x \in Subscriptions(m) : x[1] = t } }
            /\ Len(ListenersOf(listeners[EventBus], m)) = 1
            /\ \A t \in ElementsOf(m) :
                  Len(listeners[t]) = Cardinality({ x \in Subscriptions(m) : x[1] = t })

\* C14, effects: one click on the cancel button of a connected modal emits
\* exactly one cancel event; one open() of a connected modal that is closed
\* (no open attribute, dialog closed) performs exactly one native show and
\* emits exactly one open event on the element and one on the bus.
C14_OneEffect ==
    \A m \in Modals :
        /\ Did("click.cancel", m) /\ modals[m].connected =>
              CountLog(log', m, "cancel", "element") = 1
        /\ Did("click.confirm", m) /\ modals[m].connected =>
              CountLog(log', m, "confirm", "element") = 1
        /\ Did("open", m) /\ modals[m].connected
              /\ ~modals[m].hasOpen /\ ~modals[m].dialogOpen =>
              /\ CountLog(log', m, "show", "dialog") = 1
              /\ CountLog(log', m, "open", "element") = 1
              /\ CountLog(log', m, "open", "bus") = 1

\* C14: listeners are not duplicated by repeated connection: after any
\* number of connectedCallback runs, with or without a disconnectedCallback
\* in between, the modal holds exactly one subscription per key, so one
\* click on the cancel button emits one cancel event and one open() shows
\* the dialog once and emits one open event.
C14_NoDuplicateListeners == []C14_OnePerKey /\ [][C14_OneEffect]_allVars

\* connectedCallback has run twice on the modal and its cancel button has
\* just been clicked while it was open: it closed and emitted one cancel.
C14_Witness ==
    /\ lastCall = [op |-> "click.cancel", modal |-> "A"]
    /\ modals["A"].connected /\ modals["A"].connects = 2
    /\ CountLog(log, "A", "close", "element") = 1
    /\ CountLog(log, "A", "cancel", "element") = 1

\* ------------------------------------------------------------------ style sheet

\* What _insertStyleSheet reads and writes:
\*   sheet      Modal._modalStyleSheet, 0 for null, else the promise (named
\*              after the instance whose constructor created it)
\*   promises   the state of the promise each loadStyleSheet call returned
\*   reactions  the callbacks registered with then() and not yet run, each
\*              with its instance and its promise
\*   head       the number of <style data-component="mo-modal"> in the head
Page == [sheet |-> modalStyleSheet, promises |-> promises,
         reactions |-> reactions, head |-> headStyles]

\* _insertStyleSheet without the test of line 87: every constructor calls
\* loadStyleSheet.
InsertStyleSheetAlwaysLoads(pg, i) ==
    LET loaded == [pg EXCEPT !.sheet = i, !.promises[i] = "pending"]
        thened == [loaded EXCEPT !.reactions = @ \cup {<<i, loaded.sheet>>}]
    IN  IF thened.head = 0 THEN [thened EXCEPT !.head = @ + 1] ELSE thened

\* _insertStyleSheet (lines 85-115), called by the constructor of instance i
\* (line 72).  It has no await: it runs to its end inside the constructor.
\* loadStyleSheet (utils.js lines 120-128) starts the fetch and returns a
\* pending promise.
InsertStyleSheet(pg, i) ==
    LET loaded == IF pg.sheet = 0
                  THEN [pg EXCEPT !.sheet = i, !.promises[i] = "pending"]
                  ELSE pg
        thened == [loaded EXCEPT !.reactions = @ \cup {<<i, loaded.sheet>>}]
    IN  IF thened.head = 0 THEN [thened EXCEPT !.head = @ + 1] ELSE thened

\* The instances constructed so far.
Constructed == { constructed[k].id : k \in DOMAIN constructed }

\* new Modal(): noted with the state in which the constructor found
\* Modal._modalStyleSheet.
Construct(i) ==
    /\ i \notin Constructed
    /\ LET pg == InsertStyleSheet(Page, i)
       IN  /\ modalStyleSheet' = pg.sheet
           /\ promises' = pg.promises
           /\ reactions' = pg.reactions
           /\ headStyles' = pg.head
    /\ constructed' = Append(constructed,
                             [id |-> i,
                              found |-> IF modalStyleSheet = 0 THEN "null"
                                        ELSE promises[modalStyleSheet]])
    /\ UNCHANGED <<vars, modalVars, adoptedStyleSheets>>

\* fetch and response.text() have delivered the text: resolve(sheet).
FetchResolve(p) ==
    /\ promises[p] = "pending"
    /\ promises' = [promises EXCEPT ![p] = "fulfilled"]
    /\ UNCHANGED <<vars, modalVars, modalStyleSheet, constructed, reactions,
                   adoptedStyleSheets, headStyles>>

\* fetch or response.text() rejects inside the async executor: resolve is
\* never called, the promise stays unsettled for good.
FetchFail(p) ==
    /\ promises[p] = "pending"
    /\ promises' = [promises EXCEPT ![p] = "failed"]
    /\ UNCHANGED <<vars, modalVars, modalStyleSheet, constructed, reactions,
                   adoptedStyleSheets, headStyles>>

\* The then-callback of instance i runs (lines 92-99): the sheet of promise p
\* is appended to the instance's adoptedStyleSheets.
RunReaction(i, p) ==
    /\ <<i, p>> \in reactions
    /\ promises[p] = "fulfilled"
    /\ reactions' = reactions \ {<<i, p>>}
    /\ adoptedStyleSheets' = [adoptedStyleSheets EXCEPT ![i] = Append(@, p)]
    /\ UNCHANGED <<vars, modalVars, modalStyleSheet, constructed, promises, headStyles>>

NextStyle ==
    \/ \E i \in Instances : Construct(i)
    \/ \E p \in Instances : FetchResolve(p)
    \/ \E p \in Instances : FetchFail(p)
    \/ \E i \in Instances, p \in Instances : RunReaction(i, p)

SpecStyle == Init /\ [][NextStyle]_allVars

\* The reactions of a fulfilled promise are run: they are microtasks the
\* event loop does not leave waiting.
SpecStyleFair ==
    SpecStyle /\ \A i \in Instances, p \in Instances : WF_allVars(RunReaction(i, p))

\* ------------------------------------------------------------------ style sheet: claim

\* The loadStyleSheet calls made so far, by the instance that made them.
LoadCalls == { i \in Instances : promises[i] # "none" }

\* C15, the fetch: loadStyleSheet has been called at most once, by the first
\* constructed instance, whose promise Modal._modalStyleSheet holds.
C15_FetchedOnce ==
    /\ Cardinality(LoadCalls) <= 1
    /\ constructed # <<>> =>
          /\ LoadCalls = {constructed[1].id}
          /\ modalStyleSheet = constructed[1].id

\* C15, the global style element: at most one in the head.
C15_OneGlobalStyle ==
    /\ headStyles <= 1
    /\ constructed # <<>> => headStyles = 1

\* C15, adoption: an instance has adopted nothing but the shared sheet, once
\* at most and only after the fetch resolved, and a constructed instance
\* that has not adopted it still has its then-callback registered.
C15_AdoptsShared ==
    \A i \in Instances :
        /\ adoptedStyleSheets[i] # <<>> =>
              /\ adoptedStyleSheets[i] = <<modalStyleSheet>>
              /\ promises[modalStyleSheet] = "fulfilled"
              /\ i \in Constructed
        /\ i \in Constructed =>
              \/ adoptedStyleSheets[i] = <<modalStyleSheet>>
              \/ /\ adoptedStyleSheets[i] = <<>>
                 /\ <<i, modalStyleSheet>> \in reactions

\* C15, once the fetch has resolved every constructed instance adopts the
\* shared sheet.
C15_EveryInstanceAdopts ==
    \A i \in Instances :
        (i \in Constructed /\ promises[modalStyleSheet] = "fulfilled")
            ~> (adoptedStyleSheets[i] = <<modalStyleSheet>>)

\* C15: the modal stylesheet is fetched at most once per page for any
\* number of instances: only the first constructed instance calls
\* loadStyleSheet, also when others are constructed before the fetch has
\* resolved; every instance adopts the one shared sheet once it resolves;
\* the global style element is inserted into the head at most once.
C15_StyleSheetLoadedOnce ==
    /\ []C15_FetchedOnce
    /\ []C15_OneGlobalStyle
    /\ []C15_AdoptsShared
    /\ C15_EveryInstanceAdopts

\* All instances but the first were constructed while the fetch of the
\* first was still pending; it has resolved and every instance has adopted
\* the sheet.
C15_Witness ==
    /\ Len(constructed) = NumInstances
    /\ \A k \in 2..NumInstances : constructed[k].found = "pending"
    /\ promises[modalStyleSheet] = "fulfilled"
    /\ \A k \in 1..NumInstances :
          adoptedStyleSheets[constructed[k].id] = <<constructed[1].id>>
    /\ Cardinality(LoadCalls) = 1
    /\ headStyles = 1

\* ------------------------------------------------------------------ Modal: events

\* The open and close events modal m emitted on itself, in order.
OpenCloseEvents(l, m) ==
    SelectSeq(l, LAMBDA e : e.modal = m /\ e.on = "element"
                              /\ e.what \in {"open", "close"})

\* C16, open() and close() of a connected modal: on a real change exactly
\* one event (open also once on the bus), otherwise nothing is emitted and
\* the dialog is not touched.
C16_OpenCloseEmit ==
    \A m \in Modals :
        /\ Did("open", m) /\ modals[m].connected /\ ~modals[m].hasOpen =>
              /\ CountLog(log', m, "open", "element") = 1
              /\ CountLog(log', m, "open", "bus") = 1
        /\ Did("close", m) /\ modals[m].connected /\ modals[m].hasOpen =>
              CountLog(log', m, "close", "element") = 1
        /\ Did("open", m) /\ modals[m].connected /\ modals[m].hasOpen =>
              log' = <<>> /\ modals' = modals
        /\ Did("close", m) /\ modals[m].connected /\ ~modals[m].hasOpen =>
              log' = <<>> /\ modals' = modals

\* C16, only on a real state change: a modal that emits open got the open
\* attribute in that step, one that emits close lost it.
C16_OnlyOnChange ==
    \A m \in Modals : \A k \in DOMAIN OpenCloseEvents(log', m) :
        modals'[m].hasOpen # modals[m].hasOpen
            /\ modals'[m].hasOpen = (OpenCloseEvents(log', m)[k].what = "open")

\* C16, the trace of one modal: every open or close event differs from the
\* one the modal emitted before it.
C16_Alternate ==
    \A m \in Modals : \A k \in DOMAIN OpenCloseEvents(log', m) :
        OpenCloseEvents(log', m)[k].what #
            (IF k = 1 THEN modals[m].lastEvent ELSE OpenCloseEvents(log', m)[k - 1].what)

\* C16: open and close events are emitted only on a real state change of a
\* connected modal: open() on a closed modal emits one open event on the
\* element and one on the bus, close() on an open modal one close event,
\* open() on an open and close() on a closed modal nothing; hence in the
\* event trace of one modal open and close events strictly alternate.
C16_EventsAlternate ==
    [][(lastCall.op = "none" /\ lastCall'.op # "none") =>
          C16_OpenCloseEmit /\ C16_OnlyOnChange /\ C16_Alternate]_allVars

====
